---- MODULE Spec2Model ----
(***************************************************************************)
(* A model of dot/model.py: the Model class (forward-model builder,       *)
(* detrending stage, sampler wrappers) and the DisableLogger guard.       *)
(*                                                                         *)
(* Numbers.  Real quantities are exact rationals <<n, d>> in lowest terms *)
(* with d >= 0; d = 0 encodes the IEEE results numpy produces for a       *)
(* division by zero: <<1,0>> = inf, <<-1,0>> = -inf, <<0,0>> = nan.       *)
(* Angles stored in priors are rational multiples of pi.  Angles that are *)
(* fed to sin/cos are points <<c, s>> of the circle c^2 + s^2 = 25, i.e.  *)
(* cos = c/5 and sin = s/5, so that the geometry is exact integer         *)
(* arithmetic.                                                             *)
(***************************************************************************)
EXTENDS Integers, Sequences, FiniteSets, TLC

VARIABLES
    args,             \* per caller: the arguments of its pending Model(...) call
    logging_disable,  \* the process-wide level set by logging.disable(...)
    lc,               \* the light curves: time, flux, flux_err
    self,             \* per caller: the fields of its Model instance
    pc,               \* per caller: position inside the running method
    frame,            \* per caller: locals of the running method
    ret,              \* per caller: how the last finished call ended
    norm,             \* per light curve: gp_normalize bookkeeping
    ev                \* one evaluation of the forward model's graph

vars == <<args, logging_disable, lc, self, pc, frame, ret, norm, ev>>

(***************************************************************************)
(* Bounds of the model.                                                    *)
(***************************************************************************)
MaxSpots == 2
MaxLen == 2
MaxNormalize == 2
MaxEvalSpots == 2

Threads == {1, 2}
LCs == {1, 2}

(***************************************************************************)
(* logging levels                                                          *)
(***************************************************************************)
NOTSET == 0
CRITICAL == 50
\* levels the host application may have set before calling in (30 = WARNING)
HostLevels == {NOTSET, 30, CRITICAL}

(***************************************************************************)
(* Exact arithmetic                                                        *)
(***************************************************************************)
Abs(n) == IF n < 0 THEN -n ELSE n

RECURSIVE GCD(_, _)
GCD(a, b) == IF b = 0 THEN a ELSE GCD(b, a % b)

Rat(n, d) ==
    LET g == GCD(Abs(n), Abs(d))
    IN  IF g = 0 THEN <<0, 0>>
        ELSE IF d < 0 THEN <<(0 - n) \div g, (0 - d) \div g>>
        ELSE <<n \div g, d \div g>>

Recip(a) == IF a[1] < 0 THEN <<0 - a[2], 0 - a[1]>> ELSE <<a[2], a[1]>>
RatMul(a, b) == Rat(a[1] * b[1], a[2] * b[2])
RatDiv(a, b) == RatMul(a, Recip(b))
RatAdd(a, b) == Rat(a[1] * b[2] + b[1] * a[2], a[2] * b[2])
RatSub(a, b) == Rat(a[1] * b[2] - b[1] * a[2], a[2] * b[2])
RatInt(k) == <<k, 1>>
RatLess(a, b) == a[2] > 0 /\ b[2] > 0 /\ a[1] * b[2] < b[1] * a[2]

Inf == <<1, 0>>
NaN == <<0, 0>>
Half == <<1, 2>>

\* np.radians(deg), as a multiple of pi
radians(deg) == Rat(deg, 180)

\* a[::k] for k >= 1
Stride(s, k) == [i \in 1..((Len(s) + k - 1) \div k) |-> s[(i - 1) * k + 1]]

(***************************************************************************)
(* DisableLogger                                                           *)
(***************************************************************************)
\* __enter__: the level in force after entering, from the one before
DisableLogger__enter__(verbose, level) ==
    IF ~verbose THEN CRITICAL ELSE level

\* __exit__(a, b, c): the level in force after leaving; the exception, if
\* any, is not swallowed (the method returns None)
DisableLogger__exit__(level) == NOTSET

(***************************************************************************)
(* The pm.Model the builder assembles                                      *)
(***************************************************************************)
None == [py |-> "None"]

Prior(name, dist, lower, upper, mu, sigma) ==
    [name |-> name, dist |-> dist, lower |-> lower, upper |-> upper,
     mu |-> mu, sigma |-> sigma]

HalfNormal(name, sigma) == Prior(name, "HalfNormal", RatInt(0), Inf, RatInt(0), sigma)

f0_prior == HalfNormal("f0", RatInt(1))
P_eq_prior(rotation_period) ==
    Prior("P_eq", "TruncatedNormal",
          Rat(4 * rotation_period, 10), Rat(15 * rotation_period, 10),
          RatInt(rotation_period), Rat(1, 10))
shear_prior == HalfNormal("shear", Rat(2, 10))
comp_inc_prior == Prior("comp_inc", "Uniform", radians(0), radians(90), NaN, NaN)

\* lon_lims = 2 * np.pi * np.arange(n_spots + 1) / n_spots  (multiples of pi;
\* element k of the array is at index k + 1)
lon_lims_shifted(n_spots) ==
    [k \in 1..(n_spots + 1) |-> RatDiv(RatMul(RatInt(2), RatInt(k - 1)), RatInt(n_spots + 1))]
lon_lims(n_spots) ==
    [k \in 1..(n_spots + 1) |-> RatDiv(RatMul(RatInt(2), RatInt(k - 1)), RatInt(n_spots))]

lon_prior(spot_ind, lims) ==
    Prior("lon_" \o ToString(spot_ind), "TruncatedNormal",
          lims[spot_ind + 1], lims[spot_ind + 2],
          RatMul(Half, RatAdd(lims[spot_ind + 1], lims[spot_ind + 2])),
          RatMul(Half, RatSub(lims[spot_ind + 2], lims[spot_ind + 1])))

lat_prior(spot_ind, latitude_cutoff) ==
    Prior("lat_" \o ToString(spot_ind), "TruncatedNormal",
          radians(latitude_cutoff), radians(180 - latitude_cutoff), Half, Half)

R_spot_prior(spot_ind) == HalfNormal("R_spot_" \o ToString(spot_ind), Rat(1, 10))

\* the priors declared by the loop over range(n_spots), in order
SpotPriors(n_spots, latitude_cutoff) ==
    LET lims == lon_lims(n_spots)
    IN  [k \in 1..(3 * n_spots) |->
            LET spot_ind == (k - 1) \div 3
            IN  CASE (k - 1) % 3 = 0 -> lon_prior(spot_ind, lims)
                  [] (k - 1) % 3 = 1 -> lat_prior(spot_ind, latitude_cutoff)
                  [] OTHER -> R_spot_prior(spot_ind)]

GlobalPriors(rotation_period) ==
    <<f0_prior, P_eq_prior(rotation_period), shear_prior, comp_inc_prior>>

\* pm.Normal("obs", mu=spot_model, sigma=scale_error * flux_err[::skip],
\*           observed=flux[::skip]).  The engine converts the observed data
\* to a constant of the graph, so the likelihood holds the values, not
\* the caller's array.
obs_likelihood(curve, skip_n_points, scale_error) ==
    [name |-> "obs",
     observed |-> Stride(curve.flux, skip_n_points),
     sigma |-> [i \in DOMAIN Stride(curve.flux_err, skip_n_points) |->
                  RatMul(RatInt(scale_error), Stride(curve.flux_err, skip_n_points)[i])]]

NoLikelihood == [name |-> "none", observed |-> <<>>, sigma |-> <<>>]

PmModel(t, n_spots, priors, obs) ==
    [name |-> ToString(n_spots), id |-> t, vars |-> priors, obs |-> obs]

(***************************************************************************)
(* Light curves and constructor arguments                                  *)
(***************************************************************************)
\* the flux observed at epoch i of the light curves the callers pass
FluxAt(i) == Rat(i + 1, 2)
\* values gp.predict may return at one epoch (0: a vanishing trend)
TrendValues == {<<2, 1>>, <<0, 1>>}

LightCurve(flux) ==
    [time |-> [i \in DOMAIN flux |-> RatInt(i - 1)],
     flux |-> flux,
     flux_err |-> [i \in DOMAIN flux |-> Rat(1, 100)]]

Curves == {LightCurve([i \in 1..n |-> FluxAt(i)]) : n \in 1..MaxLen}
DefaultCurve == LightCurve(<<FluxAt(1)>>)

\* Model(light_curve, rotation_period, n_spots, skip_n_points=1,
\*       latitude_cutoff=10, scale_error=5, verbose=False)
Call(light_curve, rotation_period, n_spots, skip_n_points, latitude_cutoff, scale_error, verbose) ==
    [light_curve |-> light_curve, rotation_period |-> rotation_period,
     n_spots |-> n_spots, skip_n_points |-> skip_n_points,
     latitude_cutoff |-> latitude_cutoff, scale_error |-> scale_error,
     verbose |-> verbose]

Calls ==
    {Call(l, p, n, k, c, 5, v) :
        l \in {1}, p \in {0, 10}, n \in 0..MaxSpots, k \in {1, 2},
        c \in {10, 90}, v \in BOOLEAN}

\* the calls of two concurrent callers: default, valid parameters, each on
\* a light curve of its own
ConcurrentCalls(t) ==
    {Call(t, 10, 1, 1, 10, 5, v) : v \in BOOLEAN}

NoSelf ==
    [lc |-> 0, model |-> None, skip_n_points |-> 0, rotation_period |-> 0,
     n_spots |-> 0, verbose |-> FALSE, scale_error |-> 0]

NoFrame ==
    [op |-> "none", entry_level |-> NOTSET, scoped |-> FALSE, engine_calls |-> 0,
     outcome |-> "none", value |-> None, engine_out |-> None, trend |-> <<>>,
     draws |-> 0]

NoReturn ==
    [op |-> "none", outcome |-> "none", value |-> None, engine_out |-> None,
     scoped |-> FALSE, entry_level |-> NOTSET, exit_level |-> NOTSET,
     engine_calls |-> 0]

NoSpot ==
    [phi |-> <<5, 0>>, lat |-> <<0, 5>>, rspot |-> 0,
     spot_position_x |-> 0, spot_position_y |-> 0, spot_position_z |-> 0,
     rsq |-> 0, sqrt_evaluated |-> FALSE, sqrt_arg |-> 0, sqrt_nan |-> FALSE,
     selected |-> 0, deficit |-> 0]

EvalIdle ==
    [active |-> FALSE, n_spots |-> 0, inclination |-> <<5, 0>>, f0 |-> 0,
     spot_ind |-> 0, baseline |-> 0, spot_model |-> 0, nan |-> FALSE,
     cur |-> NoSpot, terms |-> <<>>, done |-> FALSE, mu |-> 0]

(***************************************************************************)
(* Model.__init__ and Model._initialize_model                              *)
(***************************************************************************)
\* how the engine may answer the declarations of _initialize_model: it
\* accepts them all, or rejects the first one whose bounds are not an
\* interval (P_eq when rotation_period <= 0, lat_0 when latitude_cutoff >= 90)
BuildOutcomes(a) ==
    {"ok"}
    \cup (IF a.rotation_period <= 0 THEN {"P_eq"} ELSE {})
    \cup (IF a.latitude_cutoff >= 90 /\ a.n_spots >= 1 THEN {"lat_0"} ELSE {})

\* what the pm.Model context holds when the with-block is left
Declared(t, a, curve, outcome) ==
    CASE outcome = "ok" ->
            PmModel(t, a.n_spots,
                    GlobalPriors(a.rotation_period)
                        \o SpotPriors(a.n_spots, a.latitude_cutoff),
                    obs_likelihood(curve, a.skip_n_points, a.scale_error))
      [] outcome = "P_eq" ->
            PmModel(t, a.n_spots, <<f0_prior>>, NoLikelihood)
      [] OTHER ->
            PmModel(t, a.n_spots,
                    GlobalPriors(a.rotation_period)
                        \o <<lon_prior(0, lon_lims(a.n_spots))>>,
                    NoLikelihood)

\* lines 45-54 and, entering _initialize_model, DisableLogger.__enter__
Model__init__(t) ==
    /\ pc[t] = "new"
    /\ args[t] # None
    /\ LET a == args[t]
       IN  /\ self' = [self EXCEPT ![t] =
                  [lc |-> a.light_curve, model |-> None,
                   skip_n_points |-> a.skip_n_points,
                   rotation_period |-> a.rotation_period,
                   n_spots |-> a.n_spots, verbose |-> a.verbose,
                   scale_error |-> a.scale_error]]
           /\ frame' = [frame EXCEPT ![t] =
                  [NoFrame EXCEPT !.op = "__init__",
                                  !.entry_level = logging_disable,
                                  !.scoped = TRUE, !.outcome = "running"]]
           /\ logging_disable' = DisableLogger__enter__(a.verbose, logging_disable)
    /\ pc' = [pc EXCEPT ![t] = "init_scope"]
    /\ UNCHANGED <<args, lc, ret, norm, ev>>

\* lines 93-151: the body of the with-blocks
_initialize_model(t) ==
    /\ pc[t] = "init_scope"
    /\ \E outcome \in BuildOutcomes(args[t]) :
          frame' = [frame EXCEPT ![t] =
              [@ EXCEPT !.outcome = IF outcome = "ok" THEN "ok" ELSE "raised",
                        !.value = Declared(t, args[t], lc[self[t].lc], outcome)]]
    /\ pc' = [pc EXCEPT ![t] = "init_exit"]
    /\ UNCHANGED <<args, logging_disable, lc, self, ret, norm, ev>>

\* DisableLogger.__exit__, then lines 152-153 (skipped when the body raised)
_initialize_model_return(t) ==
    /\ pc[t] = "init_exit"
    /\ logging_disable' = DisableLogger__exit__(logging_disable)
    /\ self' = [self EXCEPT ![t].model =
                  IF frame[t].outcome = "ok" THEN frame[t].value ELSE @]
    /\ ret' = [ret EXCEPT ![t] =
          [op |-> "__init__",
           outcome |-> IF frame[t].outcome = "ok" THEN "returned" ELSE "EngineError",
           value |-> frame[t].value, engine_out |-> None,
           scoped |-> frame[t].scoped,
           entry_level |-> frame[t].entry_level,
           exit_level |-> logging_disable',
           engine_calls |-> 0]]
    /\ frame' = [frame EXCEPT ![t] = NoFrame]
    /\ pc' = [pc EXCEPT ![t] = "idle"]
    /\ UNCHANGED <<args, lc, norm, ev>>

(***************************************************************************)
(* Model._check_model, Model.sample_smc, Model.sample_nuts                 *)
(***************************************************************************)
\* TRUE when _check_model raises its ValueError
_check_model_skipped(obj) == FALSE
_check_model(obj) == obj.model = None

Draws == {50, 100}

\* lines 180-182 / 205-207: the check, then DisableLogger.__enter__
SampleCall(t, op, draws) ==
    /\ pc[t] = "idle"
    /\ IF _check_model(self[t])
       THEN /\ ret' = [ret EXCEPT ![t] =
                  [op |-> op, outcome |-> "ValueError", value |-> None,
                   engine_out |-> None, scoped |-> FALSE,
                   entry_level |-> logging_disable,
                   exit_level |-> logging_disable, engine_calls |-> 0]]
            /\ UNCHANGED <<logging_disable, pc, frame>>
       ELSE /\ frame' = [frame EXCEPT ![t] =
                  [NoFrame EXCEPT !.op = op, !.entry_level = logging_disable,
                                  !.scoped = TRUE, !.outcome = "running",
                                  !.draws = draws]]
            /\ logging_disable' =
                  DisableLogger__enter__(self[t].verbose, logging_disable)
            /\ pc' = [pc EXCEPT ![t] = "sample_scope"]
            /\ UNCHANGED ret
    /\ UNCHANGED <<args, lc, self, norm, ev>>

sample_smc(t) == \E draws \in Draws : SampleCall(t, "sample_smc", draws)

sample_nuts(t) == \E draws \in Draws : SampleCall(t, "sample_nuts", draws)

\* what the external engine hands back for one call
EngineTrace(op, model, draws) ==
    [engine |-> IF op = "sample_smc" THEN "pymc3.smc.sample_smc" ELSE "pm.sample",
     model |-> model.id, names |-> [i \in DOMAIN model.vars |-> model.vars[i].name],
     draws |-> draws]

\* lines 182-184 / 207-209: `with self.model:` and the engine call, which
\* returns a trace or raises
engine_sample(t) ==
    /\ pc[t] = "sample_scope"
    /\ IF self[t].model = None
       THEN frame' = [frame EXCEPT ![t] = [@ EXCEPT !.outcome = "AttributeError"]]
       ELSE \E result \in {"trace", "SamplingError"} :
              LET out == EngineTrace(frame[t].op, self[t].model, frame[t].draws)
              IN  frame' = [frame EXCEPT ![t] =
                      [@ EXCEPT !.engine_calls = @ + 1,
                                !.outcome = IF result = "trace" THEN "ok" ELSE result,
                                !.engine_out = IF result = "trace" THEN out ELSE None,
                                !.value = IF result = "trace" THEN out ELSE None]]
    /\ pc' = [pc EXCEPT ![t] = "sample_exit"]
    /\ UNCHANGED <<args, logging_disable, lc, self, ret, norm, ev>>

\* DisableLogger.__exit__, then `return trace` (or the propagating error)
sample_return(t) ==
    /\ pc[t] = "sample_exit"
    /\ logging_disable' = DisableLogger__exit__(logging_disable)
    /\ ret' = [ret EXCEPT ![t] =
          [op |-> frame[t].op,
           outcome |-> IF frame[t].outcome = "ok" THEN "returned" ELSE frame[t].outcome,
           value |-> frame[t].value, engine_out |-> frame[t].engine_out,
           scoped |-> frame[t].scoped,
           entry_level |-> frame[t].entry_level,
           exit_level |-> logging_disable',
           engine_calls |-> frame[t].engine_calls]]
    /\ frame' = [frame EXCEPT ![t] = NoFrame]
    /\ pc' = [pc EXCEPT ![t] = "idle"]
    /\ UNCHANGED <<args, lc, self, norm, ev>>

(***************************************************************************)
(* Model.gp_normalize                                                      *)
(***************************************************************************)
\* self.lc.flux /= gp_trend
Detrend_all_columns(curve, gp_trend) ==
    [curve EXCEPT !.flux = [k \in DOMAIN @ |-> RatDiv(@[k], gp_trend[k])],
                  !.flux_err = [k \in DOMAIN @ |-> RatDiv(@[k], gp_trend[k])]]
Detrend(curve, gp_trend) ==
    [curve EXCEPT !.flux = [k \in DOMAIN @ |-> RatDiv(@[k], gp_trend[k])]]

\* what gp_normalize assigns on the instance itself, given the new flux
Rebuilt(obj, flux) ==
    IF obj.model = None THEN obj
    ELSE [obj EXCEPT !.model.obs.observed = Stride(flux, obj.skip_n_points)]
InstanceAfterNormalize(obj, flux) == obj

\* lines 68-71: gp.compute and gp.predict, which return the trend at every
\* epoch or raise (a singular covariance)
gp_predict(t) ==
    /\ pc[t] = "idle"
    /\ norm[self[t].lc].count < MaxNormalize
    /\ \E r \in {<<>>} \cup [1..Len(lc[self[t].lc].flux) -> TrendValues] :
          frame' = [frame EXCEPT ![t] =
              [NoFrame EXCEPT !.op = "gp_normalize",
                              !.outcome = IF r = <<>> THEN "LinAlgError" ELSE "ok",
                              !.trend = r]]
    /\ pc' = [pc EXCEPT ![t] = "gp"]
    /\ UNCHANGED <<args, logging_disable, lc, self, ret, norm, ev>>

\* lines 72-77: (the optional plot changes nothing), then the division
gp_normalize(t) ==
    /\ pc[t] = "gp"
    /\ LET l == self[t].lc
       IN  IF frame[t].outcome = "ok"
           THEN /\ lc' = [lc EXCEPT ![l] = Detrend(@, frame[t].trend)]
                /\ self' = [u \in Threads |->
                              IF self[u].lc = l
                              THEN InstanceAfterNormalize(self[u], lc'[l].flux)
                              ELSE self[u]]
                /\ norm' = [norm EXCEPT ![l] =
                      [count |-> @.count + 1,
                       after_build |-> @.after_build
                           \/ \E u \in Threads :
                                 self[u].lc = l /\ self[u].model # None]]
           ELSE UNCHANGED <<lc, self, norm>>
    /\ ret' = [ret EXCEPT ![t] =
          [NoReturn EXCEPT !.op = "gp_normalize",
                           !.outcome = IF frame[t].outcome = "ok" THEN "returned"
                                       ELSE frame[t].outcome,
                           !.entry_level = logging_disable,
                           !.exit_level = logging_disable]]
    /\ frame' = [frame EXCEPT ![t] = NoFrame]
    /\ pc' = [pc EXCEPT ![t] = "idle"]
    /\ UNCHANGED <<args, logging_disable, ev>>

(***************************************************************************)
(* Specifications of the callers                                           *)
(***************************************************************************)
InitWith(calls, curves, levels, evals) ==
    /\ args \in calls
    /\ logging_disable \in levels
    /\ lc \in curves
    /\ self = [t \in Threads |-> NoSelf]
    /\ pc = [t \in Threads |-> "new"]
    /\ frame = [t \in Threads |-> NoFrame]
    /\ ret = [t \in Threads |-> NoReturn]
    /\ norm = [l \in LCs |-> [count |-> 0, after_build |-> FALSE]]
    /\ ev \in evals

\* one caller, any arguments
Init ==
    InitWith({[t \in Threads |-> IF t = 1 THEN c ELSE None] : c \in Calls},
             {[l \in LCs |-> IF l = 1 THEN c ELSE DefaultCurve] : c \in Curves},
             HostLevels, {EvalIdle})

\* two callers at once, valid arguments
InitConcurrent ==
    InitWith({a \in [Threads -> UNION {ConcurrentCalls(t) : t \in Threads}] :
                 \A t \in Threads : a[t] \in ConcurrentCalls(t)},
             {[l \in LCs |-> DefaultCurve]}, {NOTSET}, {EvalIdle})

Next ==
    \E t \in Threads :
        \/ Model__init__(t)
        \/ _initialize_model(t)
        \/ _initialize_model_return(t)
        \/ sample_smc(t)
        \/ sample_nuts(t)
        \/ engine_sample(t)
        \/ sample_return(t)
        \/ gp_predict(t)
        \/ gp_normalize(t)

\* the operations that enter a DisableLogger scope
NextScoped ==
    \E t \in Threads :
        \/ Model__init__(t)
        \/ _initialize_model(t)
        \/ _initialize_model_return(t)
        \/ sample_smc(t)
        \/ sample_nuts(t)
        \/ engine_sample(t)
        \/ sample_return(t)

Spec == Init /\ [][Next]_vars

SpecConcurrent == InitConcurrent /\ [][NextScoped]_vars

(***************************************************************************)
(* The graph _initialize_model declares, evaluated at one parameter point  *)
(* and one observation time.  Lengths are in units of 1/125, rsq and the   *)
(* flux in units of 1/15625, radii and f0 in units of 1/5.  The phase      *)
(* 2 pi / period_i * (time - mean) - lon takes every value as the          *)
(* parameters and the time vary, so phi is an input.                       *)
(***************************************************************************)
UnitCircle == {a \in (-5..5) \X (-5..5) : a[1] * a[1] + a[2] * a[2] = 25}
cos(a) == a[1]
sin(a) == a[2]
\* a - np.pi / 2
minus_half_pi(a) == <<a[2], 0 - a[1]>>

One == 125 * 125
ContrastFifths == 2

Phases == UnitCircle
\* the support of the latitude prior for 0 <= latitude_cutoff < 90
Latitudes == {<<3, 4>>, <<0, 5>>, <<-4, 3>>}
\* the support of comp_inc: 0 to 90 degrees
Inclinations == {<<5, 0>>, <<4, 3>>, <<0, 5>>}
Radii == {0, 2}
Offsets == {0, 1}

\* lines 131-135
spot_position_x_unshifted(phi, lat, inclination) ==
    cos(phi) * sin(inclination) * sin(lat)
        + 5 * cos(inclination) * cos(lat)
spot_position_x(phi, lat, inclination) ==
    cos(minus_half_pi(phi)) * sin(inclination) * sin(lat)
        + 5 * cos(inclination) * cos(lat)

\* lines 136-137
spot_position_y(phi, lat) ==
    0 - (5 * sin(minus_half_pi(phi)) * sin(lat))

\* lines 138-142
spot_position_z(phi, lat, inclination) ==
    5 * cos(lat) * sin(inclination)
        - sin(phi) * cos(inclination) * sin(lat)

\* pm.math.sqrt of v / 15625, in units of 1/125: nan below zero.  Every
\* argument the graph produces is a perfect square; the floor keeps the
\* operator total.
sqrt(v) ==
    IF v < 0 THEN [nan |-> TRUE, val |-> 0]
    ELSE [nan |-> FALSE,
          val |-> CHOOSE r \in 0..125 : r * r <= v /\ (r + 1) * (r + 1) > v]

\* pm.math.where(cond, a, b): an elementwise select of two tensors that
\* have both been computed
where_ungated(cond, a, b) == a
where(cond, a, b) == IF cond THEN a ELSE b

\* lines 108-146, one pass of the loop at one observation time
spot_loop ==
    /\ ev.active
    /\ ev.spot_ind < ev.n_spots
    /\ \E phi \in Phases, lat \in Latitudes, rspot \in Radii :
          LET x == spot_position_x(phi, lat, ev.inclination)
              y == spot_position_y(phi, lat)
              z == spot_position_z(phi, lat, ev.inclination)
              rsq == x * x + y * y
              root == sqrt(One - rsq)
              sel == where(z > 0, root, [nan |-> FALSE, val |-> 0])
              deficit == rspot * rspot * (5 - ContrastFifths) * sel.val
          IN  ev' = [ev EXCEPT
                  !.spot_ind = @ + 1,
                  !.spot_model = @ - deficit,
                  !.nan = @ \/ sel.nan,
                  !.cur = [phi |-> phi, lat |-> lat, rspot |-> rspot,
                           spot_position_x |-> x, spot_position_y |-> y,
                           spot_position_z |-> z, rsq |-> rsq,
                           sqrt_evaluated |-> TRUE, sqrt_arg |-> One - rsq,
                           sqrt_nan |-> root.nan,
                           selected |-> sel.val, deficit |-> deficit],
                  !.terms = Append(@, [visible |-> z > 0, rspot |-> rspot,
                                       deficit |-> deficit])]
    /\ UNCHANGED <<args, logging_disable, lc, self, pc, frame, ret, norm>>

\* line 148: mu = spot_model
obs ==
    /\ ev.active
    /\ ev.spot_ind >= ev.n_spots
    /\ ~ev.done
    /\ ev' = [ev EXCEPT !.done = TRUE, !.mu = ev.spot_model]
    /\ UNCHANGED <<args, logging_disable, lc, self, pc, frame, ret, norm>>

\* line 95: spot_model = 1 + f0
EvalStart(n_spots, inclination, f0) ==
    [EvalIdle EXCEPT !.active = TRUE, !.n_spots = n_spots,
                     !.inclination = inclination, !.f0 = f0,
                     !.baseline = One + f0 * (One \div 5),
                     !.spot_model = One + f0 * (One \div 5)]

InitEval ==
    InitWith({[t \in Threads |-> None]}, {[l \in LCs |-> DefaultCurve]}, {NOTSET},
             {EvalStart(n, i, f) :
                 n \in 1..MaxEvalSpots, i \in Inclinations, f \in Offsets})

NextEval == spot_loop \/ obs

SpecEval == InitEval /\ [][NextEval]_vars

(***************************************************************************)
(* Properties                                                              *)
(***************************************************************************)
Invalid(a) ==
    a.n_spots < 1 \/ a.rotation_period <= 0 \/ a.latitude_cutoff >= 90

ScopedOps == {"__init__", "sample_smc", "sample_nuts"}
Samplers == {"sample_smc", "sample_nuts"}

\* C1: a Model constructed with n_spots < 1, rotation_period <= 0 or
\* latitude_cutoff >= 90 fails with a parameter validity error: nothing is
\* declared in the model context, self.model stays None and no sampler
\* runs on the instance.
C1_InvalidParametersRejected ==
    \A t \in Threads :
        (args[t] # None /\ Invalid(args[t])) =>
            /\ pc[t] = "init_exit" => frame[t].value = None
            /\ self[t].model = None
            /\ pc[t] \notin {"sample_scope", "sample_exit"}
            /\ ret[t].op = "__init__" =>
                  ret[t].outcome = "ParameterError" /\ ret[t].value = None

\* C2: sample_smc and sample_nuts check the model first.  With self.model
\* None the call ends in the usage error at once, having entered no
\* DisableLogger scope and made no engine call; with self.model set the
\* engine is called exactly once inside the scope and the value returned
\* is the trace the engine returned.
C2_SamplersCheckModelFirst ==
    \A t \in Threads :
        /\ pc[t] \in {"sample_scope", "sample_exit"} => self[t].model # None
        /\ pc[t] = "sample_scope" => frame[t].engine_calls = 0
        /\ pc[t] = "sample_exit" => frame[t].engine_calls = 1
        /\ ret[t].op \in Samplers =>
              IF self[t].model = None
              THEN /\ ret[t].outcome = "ValueError"
                   /\ ~ret[t].scoped
                   /\ ret[t].engine_calls = 0
              ELSE /\ ret[t].scoped
                   /\ ret[t].engine_calls = 1
                   /\ ret[t].outcome \in {"returned", "SamplingError"}
                   /\ ret[t].outcome = "returned" =>
                         /\ ret[t].value # None
                         /\ ret[t].value = ret[t].engine_out
                         /\ ret[t].value.model = self[t].model.id

C2_UsageErrorRaised ==
    \E t \in Threads :
        /\ self[t].model = None
        /\ ret[t].op \in Samplers
        /\ ret[t].outcome = "ValueError"

\* C3: while a delegated call of a Model built with verbose=False is in
\* progress, logging is suppressed, whatever other instances do with
\* their own scopes in the meantime.
C3_SuppressedThroughoutCall ==
    \A t \in Threads :
        (pc[t] \in {"init_scope", "sample_scope"} /\ ~self[t].verbose)
            => logging_disable = CRITICAL

\* C4: the level in force when a DisableLogger scope has been left equals
\* the level that was in force when it was entered, whether the body
\* returned or raised.
C4_LevelRestoredOnExit ==
    \A t \in Threads :
        (ret[t].op \in ScopedOps /\ ret[t].scoped)
            => ret[t].exit_level = ret[t].entry_level

\* C5: gp_normalize never runs on a light curve after a forward model has
\* been built from it, and the flux a built likelihood observes is the
\* flux of the light curve.
C5_NormalizeBeforeBuild ==
    /\ \A l \in LCs : ~norm[l].after_build
    /\ \A t \in Threads :
          self[t].model # None =>
              self[t].model.obs.observed
                  = Stride(lc[self[t].lc].flux, self[t].skip_n_points)

\* C6: once construction has assigned self.model, no step of gp_normalize,
\* sample_smc or sample_nuts changes it (the object, its declared
\* parameters, the observed flux and the sigma of its likelihood), and no
\* step of the builder changes a light curve.
C6_ForwardModelImmutable ==
    [][/\ \A t \in Threads :
             self[t].model # None => self'[t].model = self[t].model
       /\ \A t \in Threads :
             (pc[t] \in {"new", "init_scope", "init_exit"} /\ pc'[t] # pc[t])
                 => lc' = lc]_vars

C6_NormalizedAfterBuild ==
    \E t \in Threads :
        /\ self[t].model # None
        /\ norm[self[t].lc].after_build
        /\ ret[t].op \in Samplers
        /\ self[t].model.obs.observed
              # Stride(lc[self[t].lc].flux, self[t].skip_n_points)

\* C7: a gp_normalize that returns leaves flux[k] = old flux[k] / trend[k]
\* at every k, the length, time and flux_err as they were; one whose trend
\* computation raises propagates the error and leaves the light curve as
\* it was.
C7_NormalizeChangesOnlyFlux ==
    [][\A t \in Threads :
          (pc[t] = "gp" /\ pc'[t] = "idle") =>
              LET l == self[t].lc
                  old == lc[l]
                  new == lc'[l]
                  trend == frame[t].trend
              IN  IF frame[t].outcome = "ok"
                  THEN /\ ret'[t].outcome = "returned"
                       /\ Len(new.flux) = Len(old.flux)
                       /\ \A k \in 1..Len(old.flux) :
                             IF trend[k][1] # 0
                             THEN RatMul(new.flux[k], trend[k]) = old.flux[k]
                             ELSE new.flux[k][2] = 0
                       /\ new.time = old.time
                       /\ new.flux_err = old.flux_err
                       /\ \A m \in LCs \ {l} : lc'[m] = lc[m]
                  ELSE /\ ret'[t].outcome = "LinAlgError"
                       /\ lc' = lc]_vars

C7_Normalized ==
    \E t \in Threads :
        /\ ret[t].op = "gp_normalize"
        /\ ret[t].outcome = "returned"
        /\ norm[self[t].lc].count = 2
        /\ \E k \in DOMAIN lc[self[t].lc].flux :
              lc[self[t].lc].flux[k] = RatDiv(FluxAt(k), <<4, 1>>)

\* the longitude prior of spot i in a built model
LonPrior(model, i) ==
    CHOOSE p \in {model.vars[k] : k \in DOMAIN model.vars} :
        p.name = "lon_" \o ToString(i)

\* C8: in a model built with n_spots >= 1 the longitude priors are n_spots
\* wedges with bounds 2 pi i / n_spots and 2 pi (i + 1) / n_spots: the
\* first starts at 0, the last ends at 2 pi, each is 2 pi / n_spots wide
\* and each ends where the next starts.  (Bounds in multiples of pi.)
C8_WedgesPartition ==
    \A t \in Threads :
        (self[t].model # None /\ self[t].n_spots >= 1) =>
            LET n == self[t].n_spots
                m == self[t].model
                names == {m.vars[k].name : k \in DOMAIN m.vars}
            IN  /\ \A i \in 0..(n - 1) :
                      Cardinality({k \in DOMAIN m.vars :
                          m.vars[k].name = "lon_" \o ToString(i)}) = 1
                /\ ("lon_" \o ToString(n)) \notin names
                /\ LonPrior(m, 0).lower = <<0, 1>>
                /\ LonPrior(m, n - 1).upper = <<2, 1>>
                /\ \A i \in 0..(n - 1) :
                      /\ LonPrior(m, i).lower = Rat(2 * i, n)
                      /\ LonPrior(m, i).upper = Rat(2 * (i + 1), n)
                      /\ RatLess(LonPrior(m, i).lower, LonPrior(m, i).upper)
                      /\ RatSub(LonPrior(m, i).upper, LonPrior(m, i).lower)
                            = Rat(2, n)
                /\ \A i \in 0..(n - 2) :
                      LonPrior(m, i).upper = LonPrior(m, i + 1).lower

C8_SeveralWedgesBuilt ==
    \E t \in Threads :
        /\ self[t].model # None
        /\ self[t].n_spots = MaxSpots
        /\ ret[t].op = "__init__"
        /\ ret[t].outcome = "returned"

\* C9 as stated: the square root is evaluated only where the spot is
\* visible (z > 0) and rsq < 1.
C9_SqrtOnlyWhereVisible ==
    ev.cur.sqrt_evaluated =>
        (ev.cur.spot_position_z > 0 /\ ev.cur.rsq < One)

\* C9, amended: the square root is evaluated for every spot and time, and
\* its argument 1 - rsq is never negative (x^2 + y^2 <= 1 everywhere, with
\* equality exactly when z = 0), so it never yields nan; where the gate
\* z > 0 is false the select substitutes 0 for the computed root.
C9_SqrtArgumentNeverNegative ==
    /\ ~ev.nan
    /\ ev.cur.sqrt_evaluated =>
          /\ ev.cur.sqrt_arg >= 0
          /\ ev.cur.rsq <= One
          /\ ~ev.cur.sqrt_nan
          /\ ev.cur.rsq = One <=> ev.cur.spot_position_z = 0
          /\ ~(ev.cur.spot_position_z > 0) => ev.cur.selected = 0

C9_SqrtEvaluatedWhileHidden ==
    /\ ev.cur.sqrt_evaluated
    /\ ev.cur.spot_position_z < 0
    /\ ev.cur.sqrt_arg > 0
    /\ ev.cur.selected = 0

RECURSIVE SumDeficits(_)
SumDeficits(terms) ==
    IF terms = <<>> THEN 0
    ELSE terms[1].deficit + SumDeficits(Tail(terms))

\* C10: a spot with z <= 0 contributes exactly 0 whatever its radius and
\* rsq; one with z > 0 contributes radius^2 (1 - 0.4) sqrt(1 - rsq).  The
\* predicted flux is 1 + f0 minus the sum of the contributions, each of
\* which is >= 0, so it never exceeds 1 + f0, and it equals 1 + f0 exactly
\* when every spot is invisible or has radius 0.
C10_VisibilityGate ==
    /\ ev.cur.sqrt_evaluated =>
          /\ ev.cur.spot_position_z <= 0 => ev.cur.deficit = 0
          /\ ev.cur.spot_position_z > 0 =>
                \E r \in 0..125 :
                    /\ r * r = One - ev.cur.rsq
                    /\ ev.cur.deficit = ev.cur.rspot * ev.cur.rspot * 3 * r
    /\ \A i \in DOMAIN ev.terms : ev.terms[i].deficit >= 0
    /\ ev.active => ev.baseline = One + ev.f0 * 3125
    /\ ev.spot_model = ev.baseline - SumDeficits(ev.terms)
    /\ ev.spot_model <= ev.baseline
    /\ ev.done =>
          /\ ev.mu = ev.baseline - SumDeficits(ev.terms)
          /\ ev.mu = ev.baseline <=>
                \A i \in DOMAIN ev.terms :
                    ~ev.terms[i].visible \/ ev.terms[i].rspot = 0

C10_HiddenSpotInsideDisk ==
    /\ ev.done
    /\ ev.cur.spot_position_z < 0
    /\ ev.cur.rsq < One
    /\ ev.cur.rspot > 0
    /\ ev.cur.deficit = 0
    /\ \E i \in DOMAIN ev.terms : ev.terms[i].visible /\ ev.terms[i].deficit > 0

====
